---- MODULE Spec2Model ----
(***************************************************************************)
(* The /search handler of mercado-livre-finder.  The repository holds two  *)
(* copies of server.js: src/server.js (popup catalog, readiness probe with *)
(* retries, per-item error handling) and src/unnamed/part_000 (postal-code *)
(* popup flow, one container wait, no per-item error handling).  Both      *)
(* register GET /search on the same port, so one process runs one of them: *)
(* impl says which.  One handler invocation is modelled from the arrival   *)
(* of the request to the end of its finally block; the next request starts *)
(* from fresh locals, as every local of the handler lives in its closure.  *)
(* Spec and LiveSpec follow that invocation await by await.  ItemSpec runs *)
(* the item loop alone over item nodes with every combination of fields,   *)
(* and ConcSpec interleaves several invocations, each taken in five steps. *)
(***************************************************************************)
EXTENDS Naturals, Sequences, FiniteSets

VARIABLES
    impl,         \* which file is running: "server" or "part000"
    nodeEnv,      \* process.env.NODE_ENV
    pc,           \* the await the handler is suspended at
    searchQuery,  \* req.query.q as received
    browser,      \* the browser session: "null", "open", "closed", "closeFailed"
    responses,    \* what was sent on res, in order
    uncaught,     \* the handler's promise was rejected
    failure,      \* which step threw into the handler's catch
    pass,         \* which call of handlePopupsAndOverlays is running
    rule,         \* index of the rule under evaluation
    popupsFound,  \* the counter of handlePopupsAndOverlays
    overlayFailed,\* an overlay interaction threw and was swallowed in this request
    overlays,     \* the elements of the page the catalog matches, and their state
    clicks,       \* clicks made by the running call of handlePopupsAndOverlays
    calm,         \* no such element has been visible since the navigation
    cepStep,      \* position in the postal-code popup flow of part_000
    attempt,      \* loop variable of waitForPageReady (0 outside the probe)
    probe,        \* state of the readiness probe
    dom,          \* the live page: results container present, item nodes
    probeSaw,     \* the item nodes page.evaluate saw in the probe, until extraction
    content,      \* the markup snapshot page.content() returned
    products,     \* the products array, once the item loop has run
    item,         \* an item node handed to the item loop on its own
    slot,         \* its position among the li children of the container
    batch,        \* what the item loop made of that container
    sessions,     \* the browser processes launched so far, each "open" or "closed"
    reqs          \* concurrent invocations of the handler, each with its own locals

handler == <<impl, nodeEnv, pc, searchQuery, browser, responses, uncaught, failure,
             pass, rule, popupsFound, overlayFailed, overlays, clicks, calm,
             cepStep, attempt, probe,
             dom, probeSaw, content, products>>

vars == <<handler, item, slot, batch, sessions, reqs>>

----------------------------------------------------------------------------
(* Bounds of the model *)

MaxItems == 2
MaxExtra == 1
NumRequests == 2

(* Program constants *)

NumPopupSelectors == 20
NumTextSelectors == 5
maxAttempts == 3
NumCepSteps == 8
TitleLimit == 200

Impls == {"server", "part000"}
NodeEnvs == {"production", "development", "unset"}
Queries == {"missing", "", "iPhone"}

----------------------------------------------------------------------------
(* Item nodes of the results page.  An item carries what the locators of   *)
(* the item loop find in it: the ad marker, the title text (that of its    *)
(* h2.ui-search-item__title, which the locator of part_000 and the third   *)
(* locator of server.js match), the two price                              *)
(* texts, the href of the title link (a sequence of URL parts, empty when  *)
(* no link matched) and the two image attributes ("" when absent).         *)
(* raises says that locating its fields throws.                            *)

Origin == "https://www.mercadolivre.com.br"
HttpParts == {Origin, "https://produto.mercadolivre.com.br"}

Item(ad, raises, title, fraction, cents, href, dataSrc, src) ==
    [ad |-> ad, raises |-> raises, title |-> title, fraction |-> fraction,
     cents |-> cents, href |-> href, dataSrc |-> dataSrc, src |-> src,
     polyTitle |-> <<>>, wrapperLink |-> <<>>, h3Link |-> <<>>, h2Link |-> <<>>]

GoodA == Item(FALSE, FALSE, <<"A">>, <<"1", ".", "2", "3", "4">>, <<"5", "6">>,
              <<"/MLB-1">>, "a.webp", "")
AdItem == Item(TRUE, FALSE, <<"S">>, <<"9", "9">>, <<>>,
               <<"https://produto.mercadolivre.com.br", "/MLB-3">>, "", "s.jpg")
NoThumb == Item(FALSE, FALSE, <<"N">>, <<"7">>, <<>>, <<"/MLB-4">>, "", "")
Raising == Item(FALSE, TRUE, <<"X">>, <<"3">>, <<>>, <<"/MLB-5">>, "x.webp", "")

(* The page holds item nodes by name. *)

ItemNodes == {"GoodA", "AdItem", "NoThumb", "Raising"}

Node(n) ==
    CASE n = "GoodA" -> GoodA
      [] n = "AdItem" -> AdItem
      [] n = "NoThumb" -> NoThumb
      [] n = "Raising" -> Raising

Nodes(names) == [i \in DOMAIN names |-> Node(names[i])]

SeqsUpTo(S, n) == UNION {[1..k -> S] : k \in 0..n}

ItemLists == SeqsUpTo(ItemNodes, MaxItems)

(* The item nodes are the li children of the results container.            *)

Doms == {d \in [container : BOOLEAN, items : ItemLists] : d.items # <<>> => d.container}

BlankDom == [container |-> FALSE, items |-> <<>>]

----------------------------------------------------------------------------
(* Price: .replace(/\./g, '').replace(/,/g, ''), cents || '00', parseFloat. *)
(* Prices are held in hundredths.                                          *)

DigitValue(c) ==
    CASE c = "0" -> 0 [] c = "1" -> 1 [] c = "2" -> 2 [] c = "3" -> 3
      [] c = "4" -> 4 [] c = "5" -> 5 [] c = "6" -> 6 [] c = "7" -> 7
      [] c = "8" -> 8 [] c = "9" -> 9

RECURSIVE StripGrouping(_)
StripGrouping(t) ==
    IF t = <<>> THEN <<>>
    ELSE IF Head(t) \in {".", ","} THEN StripGrouping(Tail(t))
         ELSE <<Head(t)>> \o StripGrouping(Tail(t))

RECURSIVE DigitsValue(_)
DigitsValue(t) ==
    IF t = <<>> THEN 0
    ELSE 10 * DigitsValue(SubSeq(t, 1, Len(t) - 1)) + DigitValue(t[Len(t)])

CentsValue(t) ==
    IF Len(t) = 1 THEN 10 * DigitValue(t[1])
    ELSE 10 * DigitValue(t[1]) + DigitValue(t[2])

PriceOfWithoutCents(node) ==
    LET priceFraction == StripGrouping(node.fraction)
    IN  IF priceFraction = <<>> THEN 0 ELSE 100 * DigitsValue(priceFraction)

PriceOf(node) ==
    LET priceFraction == StripGrouping(node.fraction)
        priceCents == IF node.cents = <<>> THEN <<"0", "0">> ELSE node.cents
    IN  IF priceFraction = <<>> THEN 0
        ELSE 100 * DigitsValue(priceFraction) + CentsValue(priceCents)

(* Permalink: server.js prefixes the site origin to a link that does not   *)
(* start with http; part_000 takes the href as it is.                      *)

StartsWithHttp(href) == href # <<>> /\ Head(href) \in HttpParts

PermalinkOf(im, node) ==
    IF im = "server" /\ node.href # <<>> /\ ~StartsWithHttp(node.href)
    THEN <<Origin>> \o node.href
    ELSE node.href

(* Thumbnail: data-src before src. *)

ThumbnailOf(node) == IF node.dataSrc # "" THEN node.dataSrc ELSE node.src

(* Title: .text().trim() of each locator, joined by ||.  server.js tries   *)
(* a.poly-component__title, .poly-component__title-wrapper a,             *)
(* .ui-search-item__title, h3 a and h2 a; part_000 has one locator.       *)

RECURSIVE TrimStart(_)
TrimStart(t) == IF t # <<>> /\ Head(t) = " " THEN TrimStart(Tail(t)) ELSE t

RECURSIVE TrimEnd(_)
TrimEnd(t) == IF t # <<>> /\ t[Len(t)] = " " THEN TrimEnd(SubSeq(t, 1, Len(t) - 1)) ELSE t

Trim(t) == TrimEnd(TrimStart(t))

RECURSIVE FirstNonEmpty(_)
FirstNonEmpty(texts) ==
    IF texts = <<>> THEN <<>>
    ELSE IF Head(texts) # <<>> THEN Head(texts)
    ELSE FirstNonEmpty(Tail(texts))

TitleLocators(node) ==
    <<node.polyTitle, node.wrapperLink, node.title, node.h3Link, node.h2Link>>

TitleTextUntrimmed(im, node) ==
    IF im = "server" THEN Trim(FirstNonEmpty(TitleLocators(node)))
    ELSE Trim(node.title)

TitleText(im, node) ==
    IF im = "server"
    THEN FirstNonEmpty([k \in DOMAIN TitleLocators(node) |-> Trim(TitleLocators(node)[k])])
    ELSE Trim(node.title)

(* server.js caps the title, part_000 does not. *)

Substring(t, n) == IF Len(t) <= n THEN t ELSE SubSeq(t, 1, n)

TitleOf(im, node) ==
    IF im = "server" THEN Substring(TitleText(im, node), TitleLimit) ELSE TitleText(im, node)

(* One iteration of the .each callback: "record", "skip" or "raise".       *)
(* server.js wraps the body in try/catch, part_000 does not.               *)

ItemComplete(im, node) ==
    /\ TitleText(im, node) # <<>>
    /\ PriceOf(node) > 0
    /\ PermalinkOf(im, node) # <<>>
    /\ ThumbnailOf(node) # ""

RecordOf(im, node) ==
    [title |-> TitleOf(im, node), price |-> PriceOf(node),
     permalink |-> PermalinkOf(im, node), thumbnail |-> ThumbnailOf(node)]

ParseItemUnguarded(im, node) ==
    IF node.ad THEN "skip"
    ELSE IF node.raises THEN "raise"
    ELSE IF ItemComplete(im, node) THEN "record"
    ELSE "skip"

ParseItemKeepingAds(im, node) ==
    IF node.raises THEN (IF im = "server" THEN "skip" ELSE "raise")
    ELSE IF ItemComplete(im, node) THEN "record"
    ELSE "skip"

ParseItem(im, node) ==
    IF node.ad THEN "skip"
    ELSE IF node.raises THEN (IF im = "server" THEN "skip" ELSE "raise")
    ELSE IF ItemComplete(im, node) THEN "record"
    ELSE "skip"

(* The whole .each loop: the products pushed, and whether the loop threw.  *)

RECURSIVE ParseItems(_, _, _)
ParseItems(im, items, acc) ==
    IF items = <<>> THEN [threw |-> FALSE, products |-> acc]
    ELSE LET outcome == ParseItem(im, Head(items))
         IN  IF outcome = "raise" THEN [threw |-> TRUE, products |-> acc]
             ELSE IF outcome = "record"
                  THEN ParseItems(im, Tail(items), Append(acc, RecordOf(im, Head(items))))
                  ELSE ParseItems(im, Tail(items), acc)

(* What the loop logs about the items it leaves out: server.js logs one    *)
(* line for a sponsored item, one for an incomplete product and one for an *)
(* item whose parsing threw; part_000 logs nothing about them.             *)

SkipLogged(im, node) == im = "server" /\ ParseItem(im, node) = "skip"

RECURSIVE SkipsLogged(_, _)
SkipsLogged(im, items) ==
    IF items = <<>> \/ ParseItem(im, Head(items)) = "raise" THEN 0
    ELSE (IF SkipLogged(im, Head(items)) THEN 1 ELSE 0) + SkipsLogged(im, Tail(items))

----------------------------------------------------------------------------
(* handlePopupsAndOverlays (server.js).  The page holds elements that the *)
(* catalog matches: a consent button that the first selector and the text *)
(* "Entendi" match, a modal close button that .andes-modal__close and     *)
(* button[class*="close"] match, and a button labelled OK that only the   *)
(* text pass matches.  Each is absent, in the document but not laid out   *)
(* (display: none), laid out but not shown (visibility: hidden), or       *)
(* visible, and the page changes them on its own while the dismisser      *)
(* runs.                                                                   *)

OverlayElements == {"understoodButton", "modalClose", "okButton"}
ElementStates == {"absent", "hidden", "invisible", "visible"}

(* element.isVisible() of puppeteer wants a visibility that is not hidden *)
(* and a box that is not empty; button.offsetParent !== null wants only   *)
(* that neither the button nor an ancestor has display: none.              *)

IsVisible(st) == st = "visible"
HasOffsetParent(st) == st \in {"invisible", "visible"}

NoOverlays == [e \in OverlayElements |-> "absent"]

SelectorsMatching(e) ==
    CASE e = "understoodButton" -> {1}
      [] e = "modalClose" -> {5, 10}
      [] e = "okButton" -> {}

TextsMatching(e) ==
    CASE e = "understoodButton" -> {1}
      [] e = "modalClose" -> {}
      [] e = "okButton" -> {2}

(* button:contains("...") is not a selector querySelector accepts, so     *)
(* page.$ rejects for the four rules written that way.                     *)

InvalidSelectors == 15..18

AnyVisible(o) == \E e \in OverlayElements : o[e] = "visible"

----------------------------------------------------------------------------
(* Responses *)

BadRequest == [status |-> 400, kind |-> "error", products |-> <<>>, details |-> "none"]

ArrayResponse(p) == [status |-> 200, kind |-> "array", products |-> p, details |-> "none"]

ErrorResponse(im, env) ==
    [status |-> 500, kind |-> "error", products |-> <<>>,
     details |-> IF im = "part000" THEN "none"
                 ELSE IF env = "development" THEN "message" ELSE "generic"]

NoContent == [taken |-> FALSE, items |-> <<>>]
NoProducts == [parsed |-> FALSE, list |-> <<>>]
Requests == 1..NumRequests
NoResponse == [status |-> 0, kind |-> "none", products |-> <<>>, details |-> "none"]
IdleRequest == [pc |-> "idle", browser |-> 0, page |-> <<>>, response |-> NoResponse]
NoBatch == [ran |-> FALSE, threw |-> FALSE, products |-> <<>>, skipsLogged |-> 0]

----------------------------------------------------------------------------
(* Groups of variables *)

process == <<impl, nodeEnv>>
dismisser == <<pass, rule, popupsFound, overlayFailed, overlays, clicks, calm, cepStep>>
prober == <<attempt, probe, probeSaw>>
extraction == <<content, products>>
page == <<overlays, calm>>
aside == <<item, slot, batch, sessions, reqs>>

Init ==
    /\ impl \in Impls
    /\ nodeEnv \in NodeEnvs
    /\ pc = "idle"
    /\ searchQuery = "missing"
    /\ browser = "null"
    /\ responses = <<>>
    /\ uncaught = FALSE
    /\ failure = "none"
    /\ pass = 0
    /\ rule = 0
    /\ popupsFound = 0
    /\ overlayFailed = FALSE
    /\ overlays = NoOverlays
    /\ clicks = 0
    /\ calm = TRUE
    /\ cepStep = 0
    /\ attempt = 0
    /\ probe = "Idle"
    /\ dom = BlankDom
    /\ probeSaw = <<>>
    /\ content = NoContent
    /\ products = NoProducts
    /\ item = GoodA
    /\ slot = 1
    /\ batch = NoBatch
    /\ sessions = <<>>
    /\ reqs = [r \in Requests |-> IdleRequest]

(* finally { if (browser) await browser.close() }: where the handler goes  *)
(* when the try block or the catch block is left with browser value b.     *)

FinallyWithoutClose(b) == "done"

Finally(b) == IF b # "null" THEN "close" ELSE "done"

(* catch (error) { res.status(500).json(...) } followed by finally.        *)

CatchWithoutResponse(kind) ==
    /\ failure' = kind
    /\ pc' = Finally(browser)
    /\ UNCHANGED responses

Catch(kind) ==
    /\ responses' = Append(responses, ErrorResponse(impl, nodeEnv))
    /\ failure' = kind
    /\ pc' = Finally(browser)

(* if (!searchQuery) in server.js; req.query.q || 'iPhone' in part_000.    *)

QueryRejected(im, q) == im = "server" /\ q \in {"missing", ""}

Receive(q) ==
    /\ pc \in {"idle", "done"}
    /\ searchQuery' = q
    /\ browser' = "null"
    /\ uncaught' = FALSE
    /\ failure' = "none"
    /\ pass' = 0 /\ rule' = 0 /\ popupsFound' = 0 /\ overlayFailed' = FALSE
    /\ overlays' = NoOverlays /\ clicks' = 0 /\ calm' = TRUE
    /\ cepStep' = 0
    /\ attempt' = 0 /\ probe' = "Idle" /\ probeSaw' = <<>>
    /\ dom' = BlankDom
    /\ content' = NoContent /\ products' = NoProducts
    /\ IF QueryRejected(impl, q)
       THEN responses' = <<BadRequest>> /\ pc' = "done"
       ELSE responses' = <<>> /\ pc' = "launch"
    /\ UNCHANGED <<aside, process>>

(* browser = await puppeteer.launch(...) *)

Launch ==
    /\ pc = "launch"
    /\ \/ /\ browser' = "open"
          /\ pc' = "setup"
          /\ UNCHANGED <<responses, failure>>
       \/ /\ Catch("launch")
          /\ UNCHANGED browser
    /\ UNCHANGED <<aside, process, searchQuery, uncaught, dismisser, prober, dom, extraction>>

(* browser.newPage(), page.setUserAgent(), page.setViewport() *)

Setup ==
    /\ pc = "setup"
    /\ \/ pc' = "goto" /\ UNCHANGED <<responses, failure>>
       \/ Catch("setup")
    /\ UNCHANGED <<aside, process, searchQuery, browser, uncaught, dismisser, prober, dom, extraction>>

(* await page.goto(searchUrl, { timeout: 60000 }) *)

Goto ==
    /\ pc = "goto"
    /\ \/ /\ IF impl = "server"
             THEN pc' = "dismiss" /\ pass' = 1 /\ rule' = 1 /\ cepStep' = 0
             ELSE pc' = "cep" /\ cepStep' = 1 /\ pass' = 0 /\ rule' = 0
          /\ UNCHANGED <<responses, failure>>
       \/ /\ Catch("navigation")
          /\ UNCHANGED <<pass, rule, cepStep>>
    /\ UNCHANGED <<aside, process, searchQuery, browser, uncaught, popupsFound, overlayFailed,
                   page, clicks, prober, dom, extraction>>

----------------------------------------------------------------------------
(* handlePopupsAndOverlays (server.js) *)

OverlayWatched == {"dismiss", "dismissText", "dismissReturn", "settle"}

OverlayChange ==
    /\ pc \in OverlayWatched
    /\ \E e \in OverlayElements, st \in ElementStates :
          /\ overlays[e] # st
          /\ overlays' = [overlays EXCEPT ![e] = st]
          /\ calm' = (calm /\ st # "visible")
    /\ UNCHANGED <<aside, process, pc, searchQuery, browser, responses, uncaught, failure,
                   pass, rule, popupsFound, overlayFailed, clicks, cepStep, prober, dom,
                   extraction>>

(* What page.$(selector) returns, and what the button the text pass finds *)
(* is: the elements of the page that the rule matches.                     *)

SelectorFinds(r) == {e \in OverlayElements : r \in SelectorsMatching(e) /\ overlays[e] # "absent"}
TextFinds(r) == {e \in OverlayElements : r \in TextsMatching(e) /\ overlays[e] # "absent"}

(* A click closes the element or leaves it where it is. *)

Clicked(e) == {[overlays EXCEPT ![e] = st] : st \in {"absent", overlays[e]}}

(* What one iteration of the selector loop can come to: page.$ rejects    *)
(* (always, for an invalid selector), returns null, returns an element    *)
(* for which isVisible() is false, or one that is visible and is clicked.  *)

SelectorYields(outcome, r) ==
    \/ outcome = "error"
    \/ r \notin InvalidSelectors /\ outcome = "absent" /\ SelectorFinds(r) = {}
    \/ r \notin InvalidSelectors /\ outcome = "hidden"
         /\ \E e \in SelectorFinds(r) : ~IsVisible(overlays[e])
    \/ r \notin InvalidSelectors /\ outcome = "clicked"
         /\ \E e \in SelectorFinds(r) : IsVisible(overlays[e])

(* One iteration of the selector loop: page.$, isVisible, click, all      *)
(* inside one try/catch.  The element is absent, present but hidden,      *)
(* visible and clicked, or one of the calls throws and the catch swallows *)
(* it.                                                                     *)

SelectorOutcomes == {"absent", "hidden", "clicked", "error"}
TextOutcomes == {"nomatch", "clicked", "error"}

DismissSelectorAborting(outcome) ==
    /\ pc = "dismiss"
    /\ SelectorYields(outcome, rule)
    /\ IF outcome = "clicked"
       THEN /\ \E e \in SelectorFinds(rule) : IsVisible(overlays[e]) /\ overlays' \in Clicked(e)
            /\ popupsFound' = popupsFound + 1
            /\ clicks' = clicks + 1
       ELSE UNCHANGED <<overlays, popupsFound, clicks>>
    /\ overlayFailed' = (overlayFailed \/ outcome = "error")
    /\ IF rule < NumPopupSelectors /\ outcome # "error"
       THEN rule' = rule + 1 /\ pc' = "dismiss"
       ELSE rule' = 1 /\ pc' = "dismissText"
    /\ UNCHANGED <<aside, process, searchQuery, browser, responses, uncaught, failure, pass,
                   calm, cepStep, prober, dom, extraction>>

DismissSelector(outcome) ==
    /\ pc = "dismiss"
    /\ SelectorYields(outcome, rule)
    /\ IF outcome = "clicked"
       THEN /\ \E e \in SelectorFinds(rule) : IsVisible(overlays[e]) /\ overlays' \in Clicked(e)
            /\ popupsFound' = popupsFound + 1
            /\ clicks' = clicks + 1
       ELSE UNCHANGED <<overlays, popupsFound, clicks>>
    /\ overlayFailed' = (overlayFailed \/ outcome = "error")
    /\ IF rule < NumPopupSelectors
       THEN rule' = rule + 1 /\ pc' = "dismiss"
       ELSE rule' = 1 /\ pc' = "dismissText"
    /\ UNCHANGED <<aside, process, searchQuery, browser, responses, uncaught, failure, pass,
                   calm, cepStep, prober, dom, extraction>>

(* One iteration of the text loop: page.evaluate finds the first button   *)
(* whose text includes the label and clicks it when its offsetParent is   *)
(* not null, or throws into the inner catch.  popupsFound is not touched. *)

DismissText(outcome) ==
    /\ pc = "dismissText"
    /\ \/ outcome = "error"
       \/ outcome = "nomatch" /\ \A e \in TextFinds(rule) : ~HasOffsetParent(overlays[e])
       \/ outcome = "clicked" /\ \E e \in TextFinds(rule) : HasOffsetParent(overlays[e])
    /\ IF outcome = "clicked"
       THEN /\ \E e \in TextFinds(rule) :
                   HasOffsetParent(overlays[e]) /\ overlays' \in Clicked(e)
            /\ clicks' = clicks + 1
       ELSE UNCHANGED <<overlays, clicks>>
    /\ overlayFailed' = (overlayFailed \/ outcome = "error")
    /\ IF rule < NumTextSelectors
       THEN rule' = rule + 1 /\ pc' = "dismissText"
       ELSE rule' = 0 /\ pc' = "dismissReturn"
    /\ UNCHANGED <<aside, process, searchQuery, browser, responses, uncaught, failure, pass,
                   popupsFound, calm, cepStep, prober, dom, extraction>>

(* console.log(...); return popupsFound.  The handler drops the value.    *)
(* After the first call comes the settle delay, after the second the      *)
(* readiness probe, and nothing looks at the overlay elements any more.   *)

DismissReturn ==
    /\ pc = "dismissReturn"
    /\ popupsFound' = 0
    /\ clicks' = 0
    /\ IF pass = 1
       THEN pc' = "settle" /\ UNCHANGED <<attempt, probe, page>>
       ELSE /\ pc' = "probeContainer" /\ attempt' = 1 /\ probe' = "Waiting"
            /\ overlays' = NoOverlays /\ calm' = TRUE
    /\ UNCHANGED <<aside, process, searchQuery, browser, responses, uncaught, failure, pass,
                   rule, overlayFailed, cepStep, probeSaw, dom, extraction>>

(* The 2000 ms settle delay, then the second call. *)

SettleSkippingSecondCall ==
    /\ pc = "settle"
    /\ pc' = "probeContainer" /\ attempt' = 1 /\ probe' = "Waiting"
    /\ overlays' = NoOverlays /\ calm' = TRUE
    /\ UNCHANGED <<aside, process, searchQuery, browser, responses, uncaught, failure,
                   pass, rule, popupsFound, clicks, overlayFailed, cepStep, probeSaw, dom,
                   extraction>>

Settle ==
    /\ pc = "settle"
    /\ pc' = "dismiss"
    /\ pass' = 2
    /\ rule' = 1
    /\ UNCHANGED <<aside, process, searchQuery, browser, responses, uncaught, failure,
                   popupsFound, clicks, overlayFailed, page, cepStep, prober, dom, extraction>>

(* The postal-code popup of part_000: eight awaits in one try/catch (wait  *)
(* for the button, click, wait for the input, click, type, wait for the    *)
(* confirm button, click, sleep).  Any of the first seven can throw; the   *)
(* catch logs and the handler goes on to the container wait.               *)

CepStep(ok) ==
    /\ pc = "cep"
    /\ ok \/ cepStep < NumCepSteps
    /\ overlayFailed' = (overlayFailed \/ ~ok)
    /\ IF ok /\ cepStep < NumCepSteps
       THEN /\ cepStep' = cepStep + 1
            /\ UNCHANGED <<pc, attempt, probe>>
       ELSE /\ cepStep' = 0
            /\ pc' = "probeContainer"
            /\ attempt' = 1
            /\ probe' = "Waiting"
    /\ UNCHANGED <<aside, process, searchQuery, browser, responses, uncaught, failure, pass,
                   rule, popupsFound, page, clicks, probeSaw, dom, extraction>>

----------------------------------------------------------------------------
(* The live page.  Its results are rendered by the page's own scripts, so  *)
(* the container and the items can appear, change and disappear while the  *)
(* handler is suspended.  Nothing reads them before the container wait or  *)
(* after page.content(), so the page moves only between those two.         *)

DomWatched == {"probeContainer", "probeItem", "probeEval", "probeBackoff", "pause", "content"}

RemoveAt(t, i) == SubSeq(t, 1, i - 1) \o SubSeq(t, i + 1, Len(t))

DomSteps(d) ==
    IF ~d.container THEN {[container |-> TRUE, items |-> <<>>]}
    ELSE {BlankDom}
         \cup {[d EXCEPT !.items = Append(d.items, n)] : n \in {m \in ItemNodes : Len(d.items) < MaxItems}}
         \cup {[d EXCEPT !.items = RemoveAt(d.items, i)] : i \in 1..Len(d.items)}

DomChange ==
    /\ pc \in DomWatched
    /\ dom' \in DomSteps(dom)
    /\ UNCHANGED <<aside, process, pc, searchQuery, browser, responses, uncaught, failure,
                   dismisser, prober, extraction>>

(* waitForPageReady (server.js).  The catch of one attempt: back off and   *)
(* retry while attempt < maxAttempts, otherwise the loop ends and the      *)
(* function throws.                                                        *)

AfterProbe(env) == IF env # "production" THEN "pause" ELSE "content"

(* The loop ran out of attempts: throw new Error('Failed to load search     *)
(* results after multiple attempts'), which lands in the handler's catch.  *)

ProbeGivesUpSilently ==
    /\ attempt' = attempt + 1
    /\ probe' = "Failed"
    /\ pc' = AfterProbe(nodeEnv)
    /\ UNCHANGED <<responses, failure>>

ProbeGivesUp ==
    /\ attempt' = attempt + 1
    /\ probe' = "Failed"
    /\ Catch("readiness")

AttemptThrew ==
    IF attempt < maxAttempts
    THEN /\ pc' = "probeBackoff"
         /\ probe' = "Waiting"
         /\ UNCHANGED <<attempt, responses, failure>>
    ELSE ProbeGivesUp

(* await page.waitForSelector('ol.ui-search-layout', { timeout: 30000 }).  *)
(* part_000 has this wait alone, outside any retry loop.                   *)

ProbeContainer ==
    /\ pc = "probeContainer"
    /\ IF dom.container
       THEN IF impl = "server"
            THEN /\ pc' = "probeItem"
                 /\ probe' = "Checking"
                 /\ UNCHANGED <<attempt, responses, failure>>
            ELSE /\ pc' = "pause"
                 /\ probe' = "Ready"
                 /\ attempt' = 0
                 /\ UNCHANGED <<responses, failure>>
       ELSE IF impl = "server"
            THEN AttemptThrew
            ELSE /\ probe' = "Failed"
                 /\ Catch("readiness")
                 /\ UNCHANGED attempt
    /\ UNCHANGED <<aside, process, searchQuery, browser, uncaught, dismisser, probeSaw, dom,
                   extraction>>

(* await page.waitForSelector('.ui-search-layout__item', { timeout: 10000 }) *)

ProbeItem ==
    /\ pc = "probeItem"
    /\ IF dom.items # <<>>
       THEN /\ pc' = "probeEval"
            /\ UNCHANGED <<attempt, probe, responses, failure>>
       ELSE AttemptThrew
    /\ UNCHANGED <<aside, process, searchQuery, browser, uncaught, dismisser, probeSaw, dom,
                   extraction>>

(* hasProducts = await page.evaluate(() => items.length > 0); return true  *)
(* or log and sleep 2000 ms.  The evaluate can throw into the catch.       *)

HasProductsOrNone(items) == Len(items) >= 0

HasProducts(items) == Len(items) > 0

(* if (hasProducts) return true; else sleep and retry: where the handler   *)
(* is suspended next.                                                      *)

AfterEvalIgnoringCount(has, env) == AfterProbe(env)

AfterEval(has, env) == IF has THEN AfterProbe(env) ELSE "probeBackoff"

ProbeEval ==
    /\ pc = "probeEval"
    /\ \/ /\ probeSaw' = dom.items
          /\ pc' = AfterEval(HasProducts(dom.items), nodeEnv)
          /\ IF HasProducts(dom.items)
             THEN probe' = "Ready" /\ attempt' = 0
             ELSE probe' = "Waiting" /\ UNCHANGED attempt
          /\ UNCHANGED <<responses, failure>>
       \/ /\ AttemptThrew
          /\ UNCHANGED probeSaw
    /\ UNCHANGED <<aside, process, searchQuery, browser, uncaught, dismisser, dom, extraction>>

(* The sleep that ends an attempt, then attempt++ and the loop test; after *)
(* the last attempt: throw new Error('Failed to load search results ...'). *)

ProbeBackoffForever ==
    /\ pc = "probeBackoff"
    /\ pc' = "probeContainer"
    /\ UNCHANGED <<aside, process, searchQuery, browser, responses, uncaught, failure, dismisser,
                   prober, dom, extraction>>

ProbeBackoff ==
    /\ pc = "probeBackoff"
    /\ attempt' = attempt + 1
    /\ IF attempt + 1 <= maxAttempts
       THEN /\ pc' = "probeContainer"
            /\ UNCHANGED <<probe, responses, failure>>
       ELSE ProbeGivesUp
    /\ UNCHANGED <<aside, process, searchQuery, browser, uncaught, dismisser, probeSaw, dom,
                   extraction>>

(* The viewing pause: 3000 ms outside production in server.js, 50000 ms    *)
(* always in part_000.                                                     *)

Pause ==
    /\ pc = "pause"
    /\ pc' = "content"
    /\ UNCHANGED <<aside, process, searchQuery, browser, responses, uncaught, failure,
                   dismisser, prober, dom, extraction>>

----------------------------------------------------------------------------
(* content = await page.content(), then, without another await: cheerio,   *)
(* the item loop and the response.  In server.js an empty result outside   *)
(* production first writes debug_page.html, which can throw.  In part_000  *)
(* the item loop itself can throw.                                         *)

Extract ==
    /\ pc = "content"
    /\ probeSaw' = <<>>
    /\ \/ /\ Catch("snapshot")
          /\ UNCHANGED extraction
       \/ LET parsed == ParseItems(impl, Nodes(dom.items), <<>>)
          IN  /\ content' = [taken |-> TRUE, items |-> dom.items]
              /\ IF parsed.threw
                 THEN /\ products' = NoProducts
                      /\ Catch("item")
                 ELSE /\ products' = [parsed |-> TRUE, list |-> parsed.products]
                      /\ \/ /\ responses' = Append(responses, ArrayResponse(parsed.products))
                            /\ pc' = Finally(browser)
                            /\ UNCHANGED failure
                         \/ /\ impl = "server"
                            /\ parsed.products = <<>>
                            /\ nodeEnv # "production"
                            /\ Catch("dump")
    /\ UNCHANGED <<aside, process, searchQuery, browser, uncaught, dismisser, attempt, probe, dom>>

(* await browser.close() in the finally block, outside any try. *)

Close ==
    /\ pc = "close"
    /\ pc' = "done"
    /\ \/ browser' = "closed" /\ UNCHANGED uncaught
       \/ browser' = "closeFailed" /\ uncaught' = TRUE
    /\ UNCHANGED <<aside, process, searchQuery, responses, failure, dismisser, prober, dom,
                   extraction>>

Next ==
    \/ \E q \in Queries : Receive(q)
    \/ Launch
    \/ Setup
    \/ Goto
    \/ \E o \in SelectorOutcomes : DismissSelector(o)
    \/ \E o \in TextOutcomes : DismissText(o)
    \/ DismissReturn
    \/ Settle
    \/ \E ok \in BOOLEAN : CepStep(ok)
    \/ OverlayChange
    \/ DomChange
    \/ ProbeContainer
    \/ ProbeItem
    \/ ProbeEval
    \/ ProbeBackoff
    \/ Pause
    \/ Extract
    \/ Close

Spec == Init /\ [][Next]_vars

(* The steps of the handler itself, as opposed to the arrival of a request *)
(* and the page's own changes.  Node's event loop runs every continuation  *)
(* whose promise has settled or whose timer has fired, so a handler step   *)
(* that stays possible is taken.                                           *)

HandlerStep ==
    \/ Launch
    \/ Setup
    \/ Goto
    \/ \E o \in SelectorOutcomes : DismissSelector(o)
    \/ \E o \in TextOutcomes : DismissText(o)
    \/ DismissReturn
    \/ Settle
    \/ \E ok \in BOOLEAN : CepStep(ok)
    \/ ProbeContainer
    \/ ProbeItem
    \/ ProbeEval
    \/ ProbeBackoff
    \/ Pause
    \/ Extract
    \/ Close

LiveSpec == Init /\ [][Next]_vars /\ WF_vars(HandlerStep)

----------------------------------------------------------------------------
(* The item loop on its own.  The container holds one item node drawn from *)
(* ItemInputs and one complete sibling, in either order, and the .each     *)
(* loop of the running file is applied to it.  The title of length n has   *)
(* "a" at its odd positions and "b" at its even ones.                      *)

TitleOfLength(n) == [i \in 1..n |-> IF i % 2 = 1 THEN "a" ELSE "b"]

TitleLengths == {0, 1, TitleLimit} \cup (TitleLimit + 1)..(TitleLimit + MaxExtra)

FractionTexts == {<<>>, <<"0">>, <<"7">>, <<"1", ".", "2", "3", "4">>}
CentsTexts == {<<>>, <<"5">>, <<"5", "6">>}
Hrefs == {<<>>, <<"/item/123">>, <<Origin, "/item/123">>,
          <<"https://produto.mercadolivre.com.br", "/MLB-3">>}

ItemInputs ==
    {Item(ad, raises, TitleOfLength(n), fraction, cents, href, dataSrc, src) :
        ad \in BOOLEAN, raises \in BOOLEAN, n \in TitleLengths,
        fraction \in FractionTexts, cents \in CentsTexts, href \in Hrefs,
        dataSrc \in {"", "a.webp"}, src \in {"", "b.jpg"}}

Container == IF slot = 1 THEN <<item, GoodA>> ELSE <<GoodA, item>>

ItemInit ==
    /\ impl \in Impls
    /\ nodeEnv = "production"
    /\ pc = "idle"
    /\ searchQuery = "iPhone"
    /\ browser = "null"
    /\ responses = <<>>
    /\ uncaught = FALSE
    /\ failure = "none"
    /\ pass = 0
    /\ rule = 0
    /\ popupsFound = 0
    /\ overlayFailed = FALSE
    /\ overlays = NoOverlays
    /\ clicks = 0
    /\ calm = TRUE
    /\ cepStep = 0
    /\ attempt = 0
    /\ probe = "Idle"
    /\ dom = BlankDom
    /\ probeSaw = <<>>
    /\ content = NoContent
    /\ products = NoProducts
    /\ item \in ItemInputs
    /\ slot \in 1..2
    /\ batch = NoBatch
    /\ sessions = <<>>
    /\ reqs = [r \in Requests |-> IdleRequest]

(* $('li.ui-search-layout__item').each(...) *)

EachItem ==
    /\ ~batch.ran
    /\ LET parsed == ParseItems(impl, Container, <<>>)
       IN  batch' = [ran |-> TRUE, threw |-> parsed.threw, products |-> parsed.products,
                     skipsLogged |-> SkipsLogged(impl, Container)]
    /\ UNCHANGED <<handler, item, slot, sessions, reqs>>

ItemSpec == ItemInit /\ [][EachItem]_vars

----------------------------------------------------------------------------
(* Properties of the handler *)

Rejected == QueryRejected(impl, searchQuery)

Ended == pc = "done"

\* C1: when the handler has ended, every browser session the request
\* launched has had browser.close() called on it, whichever way the try
\* block was left: no ended request holds a session that is still open.
SessionReleasedOnEveryExit ==
    /\ Ended => browser # "open"
    /\ pc = "close" => browser = "open"
    /\ browser = "open" => pc \notin {"idle", "launch", "done"}

ReleasedAfterProbeFailure ==
    /\ Ended
    /\ failure = "readiness"
    /\ browser = "closed"

\* C2: the markup snapshot and the item loop happen only after the
\* readiness probe has reached Ready; while the probe is Waiting, Checking
\* or Failed the handler is not at the snapshot and nothing has been parsed.
ExtractionOnlyAfterReady ==
    /\ (pc \in {"pause", "content"} \/ content.taken \/ products.parsed) => probe = "Ready"
    /\ pc \in {"probeContainer", "probeItem", "probeEval", "probeBackoff"}
          => probe \in {"Waiting", "Checking"} /\ ~content.taken /\ ~products.parsed

ParsedAfterReady ==
    /\ impl = "server"
    /\ content.taken
    /\ products.parsed
    /\ products.list # <<>>
    /\ probe = "Ready"

\* C3: waitForPageReady makes at most maxAttempts attempts; it fails exactly
\* when all of them ended without items, and then nothing is extracted and
\* the request is answered with the 500 error object.
ProbeExhaustionIsFatal ==
    impl = "server" =>
        /\ attempt \in 0..(maxAttempts + 1)
        /\ (attempt > maxAttempts) = (probe = "Failed")
        /\ probe = "Failed" =>
              /\ ~content.taken
              /\ ~products.parsed
              /\ failure = "readiness"
              /\ responses = <<ErrorResponse(impl, nodeEnv)>>
              /\ pc \in {"close", "done"}

ProbeExhausted ==
    /\ impl = "server"
    /\ probe = "Failed"
    /\ attempt = maxAttempts + 1
    /\ dom.container
    /\ dom.items = <<>>
    /\ Ended

\* C4 (as claimed): the probe returns Ready on an attempt k <= maxAttempts
\* at which it counted at least one item, and the item nodes of the snapshot
\* that is parsed are the ones the probe counted.
SnapshotIsWhatProbeSaw ==
    [][/\ (impl = "server" /\ probe # "Ready" /\ probe' = "Ready")
            => attempt \in 1..maxAttempts /\ Len(dom.items) > 0 /\ probeSaw' = dom.items
       /\ (impl = "server" /\ pc = "content" /\ content'.taken)
            => content'.items = probeSaw]_vars

\* C4 (amended): the probe returns Ready on an attempt k <= maxAttempts at
\* which it counted at least one item, and the snapshot that is parsed holds
\* the item nodes of the live page at the time of page.content(): those the
\* probe counted when the page has not changed since, others otherwise.
SnapshotIsLivePage ==
    [][/\ (impl = "server" /\ probe # "Ready" /\ probe' = "Ready")
            => attempt \in 1..maxAttempts /\ Len(dom.items) > 0 /\ probeSaw' = dom.items
       /\ (impl = "server" /\ pc = "content" /\ content'.taken)
            => /\ content'.items = dom.items
               /\ products'.list = ParseItems(impl, Nodes(dom.items), <<>>).products
               /\ (dom.items = probeSaw => content'.items = probeSaw)]_vars

SnapshotAfterPageChanged ==
    /\ impl = "server"
    /\ probe = "Ready"
    /\ content.taken
    /\ content.items = <<>>
    /\ responses = <<ArrayResponse(<<>>)>>

\* C5: a request whose q is missing or empty is answered with the 400
\* error and ends there: no browser launch, no navigation.
MissingQueryRejected ==
    (pc # "idle" /\ searchQuery \in {"missing", ""})
        => /\ responses = <<BadRequest>>
           /\ Ended
           /\ browser = "null"
           /\ failure = "none"

\* C6: a request that passes the query check has no response while the
\* pipeline runs and exactly one from the moment the try block is left:
\* the array of the parsed products, or the 500 error object.
ExactlyOneResponse ==
    /\ Len(responses) <= 1
    /\ (pc # "idle" /\ ~Rejected) =>
          IF pc \in {"close", "done"}
          THEN /\ Len(responses) = 1
               /\ \/ /\ failure = "none"
                     /\ products.parsed
                     /\ responses[1] = ArrayResponse(products.list)
                  \/ /\ failure # "none"
                     /\ responses[1] = ErrorResponse(impl, nodeEnv)
          ELSE responses = <<>>

EmptyArrayAnswered ==
    /\ Ended
    /\ content.items # <<>>
    /\ responses = <<ArrayResponse(<<>>)>>

\* C7: under fair scheduling of the handler's steps every request that was
\* taken up reaches the end of its handler with one response sent, whatever
\* the page shows or fails to show.
RequestEventuallyAnswered ==
    (pc \notin {"idle", "done"}) ~> (Ended /\ Len(responses) = 1)

NeverReadyPageAnswered ==
    /\ Ended
    /\ failure = "readiness"
    /\ dom = BlankDom
    /\ ~overlayFailed
    /\ Len(responses) = 1

\* C8: a failing browser.close() is handled inside the handler: it does not
\* reject the handler's promise and leaves the one response as it was.
CloseFailureContained ==
    browser = "closeFailed" => ~uncaught /\ Len(responses) = 1

\* C9 (as claimed): a request answered with the 500 error had a failed
\* navigation or a failed readiness probe.
ErrorOnlyFromNavigationOrProbe ==
    (responses # <<>> /\ responses[1].status = 500)
        => failure \in {"navigation", "readiness"}

NonRaising(items) == SelectSeq(items, LAMBDA n : ~Node(n).raises)

\* C9 (amended): in server.js a request is answered with the 500 error only
\* when the launch, the page setup, the navigation, the readiness probe, the
\* snapshot or the debug dump of an empty result failed; a failing overlay
\* rule or item is never the cause, and once the snapshot is taken the
\* products are those of the items that did not fail.
OnlyPipelineStepsAbort ==
    impl = "server" =>
        /\ failure \in {"none", "launch", "setup", "navigation", "readiness", "snapshot", "dump"}
        /\ (responses # <<>> /\ responses[1].status = 500) => failure # "none"
        /\ content.taken =>
              /\ products.parsed
              /\ products.list = ParseItems("server", Nodes(NonRaising(content.items)), <<>>).products
        /\ (pc \in {"close", "done"} /\ ~Rejected /\ failure = "none")
              => responses = <<ArrayResponse(products.list)>>

IsolatedFailuresAnswered ==
    /\ impl = "server"
    /\ Ended
    /\ overlayFailed
    /\ \E i \in 1..Len(content.items) : content.items[i] = "Raising"
    /\ products.list # <<>>
    /\ responses = <<ArrayResponse(products.list)>>

\* C10: an item whose field lookup throws is skipped and nothing else: the
\* loop finishes and the products are those of the other items, as if the
\* failing item were not in the snapshot.
ItemFailureSkipsOnlyThatItem ==
    (content.taken /\ NonRaising(content.items) # content.items)
        => /\ products.parsed
           /\ products.list = ParseItems(impl, Nodes(NonRaising(content.items)), <<>>).products
           /\ failure # "item"

(* The title locators on their own: a complete item whose five title     *)
(* locators each find nothing, only white space, or a text of their own   *)
(* with white space around it.                                             *)

LocatorTexts(name) == {<<>>, <<" ">>, <<" ", name, " ">>}

TitleInputs ==
    {[GoodA EXCEPT !.polyTitle = t1, !.wrapperLink = t2, !.title = t3,
                   !.h3Link = t4, !.h2Link = t5] :
        t1 \in LocatorTexts("T1"), t2 \in LocatorTexts("T2"), t3 \in LocatorTexts("T3"),
        t4 \in LocatorTexts("T4"), t5 \in LocatorTexts("T5")}

TitleInit ==
    /\ impl \in Impls
    /\ nodeEnv = "production"
    /\ pc = "idle"
    /\ searchQuery = "iPhone"
    /\ browser = "null"
    /\ responses = <<>>
    /\ uncaught = FALSE
    /\ failure = "none"
    /\ pass = 0
    /\ rule = 0
    /\ popupsFound = 0
    /\ overlayFailed = FALSE
    /\ overlays = NoOverlays
    /\ clicks = 0
    /\ calm = TRUE
    /\ cepStep = 0
    /\ attempt = 0
    /\ probe = "Idle"
    /\ dom = BlankDom
    /\ probeSaw = <<>>
    /\ content = NoContent
    /\ products = NoProducts
    /\ item \in TitleInputs
    /\ slot \in 1..2
    /\ batch = NoBatch
    /\ sessions = <<>>
    /\ reqs = [r \in Requests |-> IdleRequest]

TitleSpec == TitleInit /\ [][EachItem]_vars

----------------------------------------------------------------------------
(* Concurrent requests.  Express calls the handler once per request and    *)
(* every await lets another invocation run, so invocations interleave at   *)
(* their awaits.  Each invocation has its own browser, page and products   *)
(* (let browser, const page, const products inside the handler); sessions  *)
(* are the browser processes puppeteer has launched for the process.  An   *)
(* invocation is followed from its arrival to its finally block in five    *)
(* steps: the query check, the launch, everything from newPage to the      *)
(* readiness probe, the snapshot with the item loop and the response, and  *)
(* the close.  Its page shows the items of its own search.                 *)

PagesServed == {<<>>, <<"GoodA">>, <<"GoodA", "GoodA">>}

(* puppeteer.launch starts a new browser process on every call. *)

LaunchedOnce(all) == 1

Launched(all) == Len(all) + 1

ReceiveOf(r, q) ==
    /\ reqs[r].pc = "idle"
    /\ reqs' = [reqs EXCEPT ![r] =
                   IF QueryRejected(impl, q)
                   THEN [@ EXCEPT !.pc = "done", !.response = BadRequest]
                   ELSE [@ EXCEPT !.pc = "launch"]]
    /\ UNCHANGED <<handler, item, slot, batch, sessions>>

LaunchOf(r) ==
    /\ reqs[r].pc = "launch"
    /\ \/ LET b == Launched(sessions)
          IN  /\ sessions' = IF b > Len(sessions) THEN Append(sessions, "open")
                             ELSE [sessions EXCEPT ![b] = "open"]
              /\ reqs' = [reqs EXCEPT ![r] = [@ EXCEPT !.pc = "pipeline", !.browser = b]]
       \/ /\ reqs' = [reqs EXCEPT ![r] = [@ EXCEPT !.pc = Finally("null"),
                                            !.response = ErrorResponse(impl, nodeEnv)]]
          /\ UNCHANGED sessions
    /\ UNCHANGED <<handler, item, slot, batch>>

(* newPage, goto, the overlay passes and the probe on the invocation's own *)
(* page: the page gets ready showing its items, or one of the steps throws *)
(* into the catch.                                                          *)

PipelineOf(r, shown) ==
    /\ reqs[r].pc = "pipeline"
    /\ \/ reqs' = [reqs EXCEPT ![r] = [@ EXCEPT !.pc = "content", !.page = shown]]
       \/ reqs' = [reqs EXCEPT ![r] = [@ EXCEPT !.pc = Finally("open"),
                                         !.response = ErrorResponse(impl, nodeEnv)]]
    /\ UNCHANGED <<handler, item, slot, batch, sessions>>

(* page.content(), the item loop and res.json(products). *)

ExtractOf(r) ==
    /\ reqs[r].pc = "content"
    /\ LET parsed == ParseItems(impl, Nodes(reqs[r].page), <<>>)
       IN  reqs' = [reqs EXCEPT ![r] =
                       [@ EXCEPT !.pc = Finally("open"),
                                 !.response = IF parsed.threw
                                              THEN ErrorResponse(impl, nodeEnv)
                                              ELSE ArrayResponse(parsed.products)]]
    /\ UNCHANGED <<handler, item, slot, batch, sessions>>

(* finally { if (browser) await browser.close() } *)

CloseOf(r) ==
    /\ reqs[r].pc = "close"
    /\ sessions' = [sessions EXCEPT ![reqs[r].browser] = "closed"]
    /\ reqs' = [reqs EXCEPT ![r] = [@ EXCEPT !.pc = "done"]]
    /\ UNCHANGED <<handler, item, slot, batch>>

ConcInit ==
    /\ impl \in Impls
    /\ nodeEnv = "production"
    /\ pc = "idle"
    /\ searchQuery = "missing"
    /\ browser = "null"
    /\ responses = <<>>
    /\ uncaught = FALSE
    /\ failure = "none"
    /\ pass = 0
    /\ rule = 0
    /\ popupsFound = 0
    /\ overlayFailed = FALSE
    /\ overlays = NoOverlays
    /\ clicks = 0
    /\ calm = TRUE
    /\ cepStep = 0
    /\ attempt = 0
    /\ probe = "Idle"
    /\ dom = BlankDom
    /\ probeSaw = <<>>
    /\ content = NoContent
    /\ products = NoProducts
    /\ item = GoodA
    /\ slot = 1
    /\ batch = NoBatch
    /\ sessions = <<>>
    /\ reqs = [r \in Requests |-> IdleRequest]

ConcNext ==
    \E r \in Requests :
        \/ \E q \in Queries : ReceiveOf(r, q)
        \/ LaunchOf(r)
        \/ \E shown \in PagesServed : PipelineOf(r, shown)
        \/ ExtractOf(r)
        \/ CloseOf(r)

ConcSpec == ConcInit /\ [][ConcNext]_vars

----------------------------------------------------------------------------
(* Properties of the item loop *)

Excluded == Len(Container) - Len(batch.products)

Lacking(node) ==
    \/ node.title = <<>>
    \/ node.fraction = <<>>
    \/ node.fraction = <<"0">> /\ node.cents = <<>>
    \/ node.href = <<>>
    \/ node.dataSrc = "" /\ node.src = ""

\* C11: every emitted record has a non-empty title, a price above zero, a
\* non-empty permalink and a non-empty thumbnail; an item lacking one of
\* them is left out of the array; and the log of the loop shows how many
\* items were left out.
OnlyCompleteItemsEmittedAndCounted ==
    batch.ran =>
        /\ \A i \in DOMAIN batch.products :
               /\ batch.products[i].title # <<>>
               /\ batch.products[i].price > 0
               /\ batch.products[i].permalink # <<>>
               /\ batch.products[i].thumbnail # ""
        /\ Lacking(item) => Excluded >= 1
        /\ batch.skipsLogged = Excluded

\* C12: an item that carries the ad marker gives no record, whatever its
\* other fields are, and the loop goes on to its sibling: the array holds
\* the record of the complete sibling and nothing else.
SponsoredNeverEmitted ==
    (batch.ran /\ item.ad) =>
        /\ ~batch.threw
        /\ Len(batch.products) = 1
        /\ batch.products[1].title = <<"A">>
        /\ batch.products[1].price = 123456
        /\ batch.products[1].thumbnail = "a.webp"

SponsoredCompleteItemSkipped ==
    /\ batch.ran
    /\ item.ad
    /\ ~Lacking(item)
    /\ slot = 1
    /\ Len(batch.products) = 1

(* The item drawn is the first li and lacks nothing but, possibly, a price. *)

PricedAlone ==
    /\ batch.ran
    /\ slot = 1
    /\ ~item.ad /\ ~item.raises
    /\ item.title # <<>> /\ item.href # <<>>
    /\ item.dataSrc # "" \/ item.src # ""

IntegerPartRead(text) ==
    CASE text = <<"0">> -> 0
      [] text = <<"7">> -> 7
      [] text = <<"1", ".", "2", "3", "4">> -> 1234

HundredthsRead(text) ==
    CASE text = <<>> -> 0
      [] text = <<"5">> -> 50
      [] text = <<"5", "6">> -> 56

\* C17: the price of an item is its integer-part text without grouping
\* punctuation, a decimal point, and its fractional text or "00": "1.234"
\* with "56" is 1234.56 and "7" alone is 7.00; an item with no
\* integer-part text has price 0 and gives no record.
PriceIsIntegerPointFraction ==
    PricedAlone =>
        IF item.fraction = <<>>
        THEN Len(batch.products) = 1 /\ batch.products[1].title = <<"A">>
        ELSE LET expected == 100 * IntegerPartRead(item.fraction) + HundredthsRead(item.cents)
             IN  IF expected = 0
                 THEN Len(batch.products) = 1
                 ELSE Len(batch.products) = 2 /\ batch.products[1].price = expected

GroupedPriceParsed ==
    /\ PricedAlone
    /\ item.fraction = <<"1", ".", "2", "3", "4">>
    /\ item.cents = <<"5", "6">>
    /\ Len(batch.products) = 2
    /\ batch.products[1].price = 123456

Absolute(url) ==
    /\ url # <<>>
    /\ Head(url) \in {"https://www.mercadolivre.com.br", "https://produto.mercadolivre.com.br"}

Emitted == PricedAlone /\ Len(batch.products) = 2

\* C18: a relative link is emitted with the site origin in front of it
\* (/item/123 becomes https://www.mercadolivre.com.br/item/123), an absolute
\* link is emitted as it is, every emitted permalink is absolute, and
\* normalizing an emitted permalink again gives the same permalink.
PermalinkNormalized ==
    batch.ran =>
        /\ \A i \in DOMAIN batch.products : Absolute(batch.products[i].permalink)
        /\ Emitted =>
               /\ batch.products[1].permalink =
                      IF item.href = <<"/item/123">>
                      THEN <<"https://www.mercadolivre.com.br", "/item/123">>
                      ELSE item.href
               /\ PermalinkOf(impl, [item EXCEPT !.href = batch.products[1].permalink])
                      = batch.products[1].permalink

\* C19: every emitted title has at most 200 characters: a longer title is
\* emitted as its first 200 characters, and a title of 200 characters or
\* fewer is emitted as it is.
TitleCapped ==
    batch.ran =>
        /\ \A i \in DOMAIN batch.products : Len(batch.products[i].title) <= 200
        /\ Emitted =>
               IF Len(item.title) <= 200
               THEN batch.products[1].title = item.title
               ELSE /\ Len(batch.products[1].title) = 200
                    /\ \A k \in 1..200 : batch.products[1].title[k] = item.title[k]

----------------------------------------------------------------------------
(* Properties of the overlay dismisser *)

Scanning == pc \in {"dismiss", "dismissText"}

RuleDone == <<pc, rule>>' # <<pc, rule>>

\* C13: whatever a rule comes to, an error included, the scan goes on to
\* the next rule in catalog order, from the first selector rule to the last
\* text rule, and then returns: nothing is thrown to the handler and no
\* response is sent from inside the scan.
ScanNeverAborted ==
    [][/\ (pc = "dismiss" /\ RuleDone) =>
              IF rule < 20 THEN pc' = "dismiss" /\ rule' = rule + 1
                           ELSE pc' = "dismissText" /\ rule' = 1
       /\ (pc = "dismissText" /\ RuleDone) =>
              IF rule < 5 THEN pc' = "dismissText" /\ rule' = rule + 1
                          ELSE pc' = "dismissReturn"
       /\ Scanning => failure' = "none" /\ responses' = responses /\ ~uncaught'
      ]_vars

ErrorThenNextRule ==
    /\ pc = "dismiss"
    /\ pass = 1
    /\ rule = 2
    /\ overlayFailed

\* C14: when no element the catalog matches has been visible since the
\* navigation, the second call returns zero, has clicked nothing and has
\* thrown nothing, and no step of a scan that finds nothing visible
\* changes the page.
QuietPageLeftAlone ==
    /\ [](pc = "dismissReturn" /\ pass = 2 /\ calm =>
             popupsFound = 0 /\ clicks = 0 /\ failure = "none")
    /\ [][(Scanning /\ RuleDone /\ ~AnyVisible(overlays)) =>
             overlays' = overlays /\ clicks' = clicks /\ popupsFound' = popupsFound]_vars

ProbeStages == {"probeContainer", "probeItem", "probeEval", "probeBackoff"}

\* C15: in server.js a navigation that succeeds is followed by the first
\* call of the dismisser, the settle delay, the second call and only then
\* the readiness probe; the second call starts whatever the first one
\* clicked or failed on.
TwoPassesBeforeProbe ==
    /\ [](impl = "server" =>
             /\ pc = "settle" => pass = 1
             /\ pc \in ProbeStages => pass = 2)
    /\ [][impl = "server" =>
             /\ (pc = "goto" /\ pc' \notin {"goto", "close"}) =>
                    pc' = "dismiss" /\ pass' = 1 /\ rule' = 1
             /\ (pc = "dismissReturn" /\ pc' # pc) =>
                    \/ pass = 1 /\ pc' = "settle"
                    \/ pass = 2 /\ pc' = "probeContainer"
             /\ (pc = "settle" /\ pc' # pc) =>
                    pc' = "dismiss" /\ pass' = 2 /\ rule' = 1
             /\ (pc' = "probeContainer" /\ pc \notin ProbeStages) =>
                    pc = "dismissReturn" /\ pass = 2
       ]_vars

SecondPassAfterFailures ==
    /\ pc = "dismiss"
    /\ pass = 2
    /\ rule = 1
    /\ overlayFailed
    /\ AnyVisible(overlays)

RuleMatches(e) == rule \in (IF pc = "dismiss" THEN SelectorsMatching(e) ELSE TextsMatching(e))

\* C21: a scan takes the rules in catalog order; a rule clicks at most one
\* element, one that it matches and that is visible at that moment; an
\* element that is in the document but not visible is never clicked, a
\* rule that matches nothing clicks nothing, and nothing but a click of
\* the scan changes an element.
ClicksOnlyVisibleMatches ==
    [][(Scanning /\ RuleDone) =>
          /\ pc = "dismiss" =>
                 IF rule < 20 THEN pc' = "dismiss" /\ rule' = rule + 1
                              ELSE pc' = "dismissText" /\ rule' = 1
          /\ pc = "dismissText" =>
                 IF rule < 5 THEN pc' = "dismissText" /\ rule' = rule + 1
                             ELSE pc' = "dismissReturn"
          /\ clicks' \in {clicks, clicks + 1}
          /\ clicks' = clicks + 1 =>
                 \E e \in OverlayElements : RuleMatches(e) /\ overlays[e] = "visible"
          /\ overlays' # overlays => clicks' = clicks + 1
      ]_vars

\* C20: the value handlePopupsAndOverlays returns is the number of clicks
\* the call made, those of the selector loop and those of the text loop.
ReturnCountsEveryClick == pc = "dismissReturn" => popupsFound = clicks

----------------------------------------------------------------------------
(* Properties of concurrent requests *)

Holding(r) == reqs[r].pc \in {"pipeline", "content", "close"}

\* C16: concurrent requests never hold the same browser session; the
\* session of a request stays open until that request closes it; a step of
\* one request changes the locals of no other request and closes no session
\* but its own; and the array a request answers with holds the products of
\* its own page.
RequestsShareNothing ==
    /\ [](\A r, s \in Requests :
             (r # s /\ Holding(r) /\ Holding(s)) => reqs[r].browser # reqs[s].browser)
    /\ [](\A r \in Requests :
             /\ Holding(r) => reqs[r].browser \in DOMAIN sessions
                              /\ sessions[reqs[r].browser] = "open"
             /\ reqs[r].response.kind = "array" =>
                    Len(reqs[r].response.products) = Len(reqs[r].page))
    /\ [][\E r \in Requests :
             /\ \A s \in Requests \ {r} : reqs'[s] = reqs[s]
             /\ \A b \in DOMAIN sessions :
                    sessions'[b] # sessions[b] => b = reqs[r].browser /\ reqs[r].pc = "close"
         ]_vars

FailedBesideRunning ==
    /\ reqs[1].pc = "done"
    /\ reqs[1].browser # 0
    /\ reqs[1].response.status = 500
    /\ sessions[reqs[1].browser] = "closed"
    /\ reqs[2].pc = "content"
    /\ reqs[2].page = <<"GoodA">>
    /\ sessions[reqs[2].browser] = "open"

----------------------------------------------------------------------------
(* Properties of the title locators *)

FoundText(text) == text \notin {<<>>, <<" ">>}

\* C22: in server.js the title of an item is the trimmed text of the first
\* of the five locators, in their order, that finds text which is not
\* empty after trimming; the locators after it play no part; and the item
\* has no title, and so gives no record, only when none of the five finds
\* such text.
FirstNonEmptyTitleWins ==
    (impl = "server" /\ batch.ran /\ slot = 1) =>
        IF FoundText(item.polyTitle) THEN batch.products[1].title = <<"T1">>
        ELSE IF FoundText(item.wrapperLink) THEN batch.products[1].title = <<"T2">>
        ELSE IF FoundText(item.title) THEN batch.products[1].title = <<"T3">>
        ELSE IF FoundText(item.h3Link) THEN batch.products[1].title = <<"T4">>
        ELSE IF FoundText(item.h2Link) THEN batch.products[1].title = <<"T5">>
        ELSE Len(batch.products) = 1 /\ batch.products[1].title = <<"A">>

FallbackTitleAfterBlankLocators ==
    /\ impl = "server"
    /\ batch.ran
    /\ slot = 1
    /\ item.polyTitle = <<" ">>
    /\ item.wrapperLink = <<>>
    /\ item.title = <<" ", "T3", " ">>
    /\ item.h2Link = <<" ", "T5", " ">>
    /\ Len(batch.products) = 2
    /\ batch.products[1].title = <<"T3">>
====
